---- MODULE Spec2Model ----
(***************************************************************************)
(* Model of ai-code-pattern-discovery: the Usage Tracker (RateLimiter,     *)
(* rate_limiter.py) and the Command Runner (PatternDetector.               *)
(* _execute_claude_code, pattern_detector.py).                             *)
(*                                                                         *)
(* Time is counted in whole seconds.  A timestamp is kept the way the code *)
(* keeps it: as the text datetime.isoformat() produces, modelled as the    *)
(* tuple <<day, hour, minute, second>> of its fields, parsed back with     *)
(* fromisoformat and compared field by field where the code compares the   *)
(* text.  The storage file holds the flat list of JSON members json.dump   *)
(* writes, read back by json.load.                                         *)
(***************************************************************************)
EXTENDS Integers, Sequences, FiniteSets, TLC

VARIABLES
    now,        \* the wall clock, in seconds
    ticks,      \* how many times the clock has advanced
    file,       \* content of the storage file rate_limit.json
    usage,      \* usage[t]: the usage object of RateLimiter instance t
    recorded,   \* recorded[t]: every event instance t loaded or appended
    records,    \* how many record_request calls have been made
    owner,      \* the instance whose log the file holds in full, or "none"
    last,       \* the operation that has just returned, with its result
    cwd,        \* the working directory of the process
    run,        \* the Command Runner call in progress
    script,     \* generate_service_collab_prompt: the spec and the prompt
    stream,     \* the streaming run: pipes, queues, threads, main loop
    invocation, \* the CLI invocation in progress: flags, position, history
    beat        \* the streaming main loop's heartbeat clock and counters

vars == <<now, ticks, file, usage, recorded, records, owner, last, cwd, run,
          script, stream, invocation, beat>>

(***************************************************************************)
(* Program constants                                                       *)
(***************************************************************************)
MINUTE == 60
HOUR == 3600
DAY == 86400

requests_per_minute == 10
requests_per_hour == 100
requests_per_day == 500

timeout == 300      \* PatternDetector.__init__: timeout: int = 300

heartbeat_interval == 10    \* seconds
SleepsPerSecond == 2        \* time.sleep(0.5)
VerboseBeats == 3           \* no_output_count <= 3
QuietPeriod == 6            \* no_output_count % 6 == 0

limits == [minute |-> requests_per_minute, hour |-> requests_per_hour,
           day |-> requests_per_day]

Windows == <<"minute", "hour", "day">>

WindowLength == [minute |-> MINUTE, hour |-> HOUR, day |-> DAY]

PatternAnalysis == "pattern_analysis"

(***************************************************************************)
(* Bounds of the model                                                     *)
(***************************************************************************)
MaxTicks == 3       \* clock advances per behaviour
MaxRecords == 2     \* record_request calls per behaviour
DayFill == 400      \* events aged DAY-3 in a preloaded storage file
HourFill == 90      \* events aged HOUR-2 in a preloaded storage file
MinuteFill == 9     \* events aged MINUTE-1 in a preloaded storage file
MaxOut == 2         \* characters of subprocess standard output
MaxCalls == 2       \* Command Runner calls per behaviour
MaxPatterns == 3    \* entries of service_collaboration_patterns
MaxLines == 3       \* lines the subprocess writes, both streams together
MaxBeats == 1       \* heartbeat intervals in a row without a stdout line
MaxInvocations == 2 \* CLI invocations per behaviour
MaxClock == 130     \* turns of the streaming main loop (half seconds)
MaxArrivals == 2    \* lines arriving during the heartbeat run

Start == 2 * DAY    \* the clock at the start of a behaviour

TickSteps == {1, MINUTE - 1}

Trackers == {"cli", "detector"}

(***************************************************************************)
(* datetime.isoformat / datetime.fromisoformat / comparison of the text    *)
(***************************************************************************)
isoformat(t) ==
    <<t \div DAY, (t % DAY) \div HOUR, (t % HOUR) \div MINUTE, t % MINUTE>>

BadStamp == <<>>    \* a "timestamp" text that fromisoformat rejects

Parsable(s) == Len(s) = 4

fromisoformat(s) == s[1] * DAY + s[2] * HOUR + s[3] * MINUTE + s[4]

\* s < t for two timestamp texts, character class by character class
StrLess(s, t) ==
    \E i \in 1..4 : /\ i <= Len(s) /\ i <= Len(t)
                    /\ s[i] < t[i]
                    /\ \A j \in 1..(i - 1) : s[j] = t[j]

\* MinByTimestamp that takes the entry recorded last
MinByTimestamp_Last(reqs) == reqs[Len(reqs)]

\* min(reqs, key=lambda x: x["timestamp"]): the first entry no other is below
MinByTimestamp(reqs) ==
    LET first == CHOOSE i \in 1..Len(reqs) :
                    /\ \A j \in 1..Len(reqs) :
                          ~StrLess(reqs[j].timestamp, reqs[i].timestamp)
                    /\ \A j \in 1..(i - 1) :
                          StrLess(reqs[i].timestamp, reqs[j].timestamp)
    IN  reqs[first]

(***************************************************************************)
(* The in-memory usage object and the storage file                         *)
(***************************************************************************)
Event(t, kind) == [timestamp |-> isoformat(t), type |-> kind]

EmptyUsage == [shape |-> "dict", requests |-> <<>>]      \* {"requests": []}

NoRequestsUsage == [shape |-> "noreq", requests |-> <<>>] \* {} : no "requests"

Absent == [kind |-> "absent", hasRequests |-> FALSE, members |-> <<>>]

Invalid == [kind |-> "invalid", hasRequests |-> FALSE, members |-> <<>>]

\* json_dump writing the requests last to first
json_dump_Reversed(u) ==
    [kind |-> "json",
     hasRequests |-> (u.shape = "dict"),
     members |-> [i \in 1..(2 * Len(u.requests)) |->
                    IF i % 2 = 1
                    THEN [key |-> "timestamp",
                          stamp |-> u.requests[Len(u.requests) + 1
                                                 - (i + 1) \div 2].timestamp,
                          text |-> ""]
                    ELSE [key |-> "type", stamp |-> <<>>,
                          text |-> u.requests[Len(u.requests) + 1
                                                - i \div 2].type]]]

\* json.dump(self.usage, f): every request becomes two members, in order
json_dump(u) ==
    [kind |-> "json",
     hasRequests |-> (u.shape = "dict"),
     members |-> [i \in 1..(2 * Len(u.requests)) |->
                    IF i % 2 = 1
                    THEN [key |-> "timestamp",
                          stamp |-> u.requests[(i + 1) \div 2].timestamp,
                          text |-> ""]
                    ELSE [key |-> "type", stamp |-> <<>>,
                          text |-> u.requests[i \div 2].type]]]

\* json.load(f) of a file json.dump could have written
json_load(f) ==
    IF ~f.hasRequests THEN NoRequestsUsage
    ELSE [shape |-> "dict",
          requests |-> [i \in 1..(Len(f.members) \div 2) |->
                          [timestamp |-> f.members[2 * i - 1].stamp,
                           type |-> f.members[2 * i].text]]]

\* RateLimiter._load_usage
_load_usage(f) ==
    IF f.kind = "absent" THEN EmptyUsage
    ELSE IF f.kind = "invalid" THEN EmptyUsage    \* json.load raised: except
    ELSE json_load(f)

\* RateLimiter._save_usage: the outcome of open()/json.dump is the
\* environment's.  "ok": the file holds the dump.  "open_failed": open raised,
\* the file is untouched.  "write_failed": open(..., 'w') truncated the file
\* and the write or the close raised; what is left does not parse.
SaveOutcomes == {"ok", "open_failed", "write_failed"}

\* _save_usage that adds the newest request to what the file holds
_save_usage_Appending(u, f, outcome) ==
    IF outcome = "ok"
    THEN json_dump([shape |-> "dict",
                    requests |-> IF u.requests = <<>> THEN _load_usage(f).requests
                                 ELSE Append(_load_usage(f).requests,
                                             u.requests[Len(u.requests)])])
    ELSE IF outcome = "open_failed" THEN f
    ELSE Invalid

_save_usage(u, f, outcome) ==
    IF outcome = "ok" THEN json_dump(u)
    ELSE IF outcome = "open_failed" THEN f
    ELSE Invalid

(***************************************************************************)
(* RateLimiter: the operations as functions of the usage object and clock  *)
(***************************************************************************)
\* Python raises where the code subscripts or parses what is not there:
\* self.usage["requests"] on an object without the key, fromisoformat on a
\* text that is no timestamp.
Raises(u) ==
    \/ u.shape # "dict"
    \/ \E i \in 1..Len(u.requests) : ~Parsable(u.requests[i].timestamp)

\* After with the boundary inclusive
After_Inclusive(reqs, t, length) ==
    SelectSeq(reqs, LAMBDA req : fromisoformat(req.timestamp) >= t - length)

\* the entries whose timestamp is after t - length (strict)
After(reqs, t, length) ==
    SelectSeq(reqs, LAMBDA req : fromisoformat(req.timestamp) > t - length)

\* _clean_old_requests that drops nothing
_clean_old_requests_KeepsAll(u, t) == u

\* RateLimiter._clean_old_requests
_clean_old_requests(u, t) ==
    [shape |-> u.shape, requests |-> After(u.requests, t, DAY)]

OK == [allowed |-> TRUE, message |-> "OK", count |-> 0, limit |-> 0,
       per |-> "none"]

Exceeded(n, w) ==
    [allowed |-> FALSE, message |-> "Rate limit exceeded", count |-> n,
     limit |-> limits[w], per |-> w]

\* check_rate_limit that looks at the longest window first
check_rate_limit_DayFirst(u, t) ==
    LET requests == _clean_old_requests(u, t).requests
        minute_count == Len(After(requests, t, MINUTE))
        hour_count == Len(After(requests, t, HOUR))
        day_count == Len(After(requests, t, DAY))
    IN  IF day_count >= limits.day THEN Exceeded(day_count, "day")
        ELSE IF hour_count >= limits.hour THEN Exceeded(hour_count, "hour")
        ELSE IF minute_count >= limits.minute
             THEN Exceeded(minute_count, "minute")
        ELSE OK

\* RateLimiter.check_rate_limit, on the cleaned log
check_rate_limit(u, t) ==
    LET requests == _clean_old_requests(u, t).requests
        minute_count == Len(After(requests, t, MINUTE))
        hour_count == Len(After(requests, t, HOUR))
        day_count == Len(After(requests, t, DAY))
    IN  IF minute_count >= limits.minute THEN Exceeded(minute_count, "minute")
        ELSE IF hour_count >= limits.hour THEN Exceeded(hour_count, "hour")
        ELSE IF day_count >= limits.day THEN Exceeded(day_count, "day")
        ELSE OK

\* RateLimiter.get_usage_stats, on the cleaned log
get_usage_stats(u, t) ==
    LET requests == _clean_old_requests(u, t).requests
    IN  [minute |-> [used |-> Len(After(requests, t, MINUTE)),
                     limit |-> limits.minute],
         hour |-> [used |-> Len(After(requests, t, HOUR)),
                   limit |-> limits.hour],
         day |-> [used |-> Len(After(requests, t, DAY)),
                  limit |-> limits.day],
         total_requests |-> Len(requests)]

Max(a, b) == IF a >= b THEN a ELSE b

\* ResetEntry that wants the count above the limit
ResetEntry_AboveLimit(u, t, w) ==
    LET window_requests == After(u.requests, t, WindowLength[w])
    IN  IF Len(window_requests) > limits[w]
        THEN LET oldest == MinByTimestamp(window_requests)
                 reset_time == fromisoformat(oldest.timestamp) + WindowLength[w]
             IN  [present |-> TRUE, seconds |-> Max(0, reset_time - t)]
        ELSE [present |-> FALSE, seconds |-> 0]

\* one window of RateLimiter.time_until_reset: whether it has an entry, and
\* the seconds of the entry
ResetEntry(u, t, w) ==
    LET window_requests == After(u.requests, t, WindowLength[w])
    IN  IF Len(window_requests) >= limits[w]
        THEN LET oldest == MinByTimestamp(window_requests)
                 reset_time == fromisoformat(oldest.timestamp) + WindowLength[w]
             IN  [present |-> TRUE, seconds |-> Max(0, reset_time - t)]
        ELSE [present |-> FALSE, seconds |-> 0]

\* RateLimiter.time_until_reset (the log is not cleaned here)
time_until_reset(u, t) ==
    [minute |-> ResetEntry(u, t, "minute"),
     hour |-> ResetEntry(u, t, "hour"),
     day |-> ResetEntry(u, t, "day")]

\* Appended that puts the new event in front
Appended_InFront(u, t, kind) ==
    [shape |-> u.shape, requests |-> <<Event(t, kind)>> \o u.requests]

\* RateLimiter.record_request: the log with one event appended
Appended(u, t, kind) ==
    [shape |-> u.shape, requests |-> Append(u.requests, Event(t, kind))]

(***************************************************************************)
(* Text of the subprocess output                                           *)
(***************************************************************************)
Chars == {" ", "x"}

Texts == UNION {[1..n -> Chars] : n \in 0..MaxOut}

Inked(s) == {i \in 1..Len(s) : s[i] \notin {" ", "\n"}}

Lowest(S) == CHOOSE i \in S : \A j \in S : i <= j

Highest(S) == CHOOSE i \in S : \A j \in S : j <= i

\* str.strip()
strip(s) ==
    IF Inked(s) = {} THEN <<>> ELSE SubSeq(s, Lowest(Inked(s)), Highest(Inked(s)))

\* str.rstrip()
rstrip(s) ==
    IF Inked(s) = {} THEN <<>> ELSE SubSeq(s, 1, Highest(Inked(s)))

(***************************************************************************)
(* Storage files a behaviour can start from                                *)
(***************************************************************************)
\* d events aged DAY-3, then h events aged HOUR-2, then m aged MINUTE-1: one
\* second later the m events leave the minute window, one more second later
\* the h events leave the hour window, and after a third the d events are a
\* day old
PreUsage(d, h, m) ==
    [shape |-> "dict",
     requests |-> [i \in 1..(d + h + m) |->
                     IF i <= d THEN Event(Start - (DAY - 3), PatternAnalysis)
                     ELSE IF i <= d + h
                          THEN Event(Start - (HOUR - 2), PatternAnalysis)
                          ELSE Event(Start - (MINUTE - 1), PatternAnalysis)]]

\* {"requests": [{"timestamp": "zzz", "type": ...}]}
BadEntryUsage ==
    [shape |-> "dict",
     requests |-> <<[timestamp |-> BadStamp, type |-> PatternAnalysis]>>]

MalformedFiles ==
    {Absent, Invalid, json_dump(NoRequestsUsage), json_dump(BadEntryUsage)}

\* logs filled up to one request short of each limit
FullFiles ==
    {json_dump(PreUsage(0, 0, MinuteFill)),
     json_dump(PreUsage(0, HourFill, MinuteFill)),
     json_dump(PreUsage(DayFill, HourFill, MinuteFill))}

\* logs of one and of three events
SmallFiles == {json_dump(PreUsage(1, 0, 0)), json_dump(PreUsage(1, 1, 1))}

NoOp == [op |-> "none"]

(***************************************************************************)
(* RateLimiter: the operations as steps of instance t                      *)
(***************************************************************************)
\* time passes
Tick(d) ==
    /\ ticks < MaxTicks
    /\ now' = now + d
    /\ ticks' = ticks + 1
    /\ last' = NoOp
    /\ UNCHANGED <<script, stream, invocation, beat>>
    /\ UNCHANGED <<file, usage, recorded, records, owner, cwd, run>>

\* RateLimiter.__init__: a new instance takes the place of t
Construct(t) ==
    /\ usage' = [usage EXCEPT ![t] = _load_usage(file)]
    /\ recorded' = [recorded EXCEPT ![t] = _load_usage(file).requests]
    /\ last' = [op |-> "construct", tracker |-> t]
    /\ UNCHANGED <<script, stream, invocation, beat>>
    /\ UNCHANGED <<now, ticks, file, records, owner, cwd, run>>

CheckRateLimit(t) ==
    /\ IF Raises(usage[t])
       THEN /\ last' = [op |-> "check", tracker |-> t, raised |-> TRUE,
                        result |-> OK]
            /\ UNCHANGED usage
       ELSE /\ last' = [op |-> "check", tracker |-> t, raised |-> FALSE,
                        result |-> check_rate_limit(usage[t], now)]
            /\ usage' = [usage EXCEPT ![t] = _clean_old_requests(@, now)]
    /\ UNCHANGED <<script, stream, invocation, beat>>
    /\ UNCHANGED <<now, ticks, file, recorded, records, owner, cwd, run>>

\* GetUsageStats that saves the cleaned log
GetUsageStats_Saving(t) ==
    /\ IF Raises(usage[t])
       THEN /\ last' = [op |-> "stats", tracker |-> t, raised |-> TRUE]
            /\ UNCHANGED <<usage, file>>
       ELSE /\ last' = [op |-> "stats", tracker |-> t, raised |-> FALSE,
                        result |-> get_usage_stats(usage[t], now)]
            /\ usage' = [usage EXCEPT ![t] = _clean_old_requests(@, now)]
            /\ file' = json_dump(_clean_old_requests(usage[t], now))
    /\ UNCHANGED <<script, stream, invocation, beat>>
    /\ UNCHANGED <<now, ticks, recorded, records, owner, cwd, run>>

GetUsageStats(t) ==
    /\ IF Raises(usage[t])
       THEN /\ last' = [op |-> "stats", tracker |-> t, raised |-> TRUE]
            /\ UNCHANGED usage
       ELSE /\ last' = [op |-> "stats", tracker |-> t, raised |-> FALSE,
                        result |-> get_usage_stats(usage[t], now)]
            /\ usage' = [usage EXCEPT ![t] = _clean_old_requests(@, now)]
    /\ UNCHANGED <<script, stream, invocation, beat>>
    /\ UNCHANGED <<now, ticks, file, recorded, records, owner, cwd, run>>

TimeUntilReset(t) ==
    /\ IF Raises(usage[t])
       THEN last' = [op |-> "reset", tracker |-> t, raised |-> TRUE]
       ELSE last' = [op |-> "reset", tracker |-> t, raised |-> FALSE,
                     result |-> time_until_reset(usage[t], now)]
    /\ UNCHANGED <<script, stream, invocation, beat>>
    /\ UNCHANGED <<now, ticks, file, usage, recorded, records, owner, cwd, run>>

\* record_request that keeps the event only when the write succeeded
record_request_SavedOnly(t, kind, outcome) ==
    IF usage[t].shape # "dict" \/ outcome # "ok"
    THEN UNCHANGED <<file, usage, recorded, owner>>
    ELSE /\ usage' = [usage EXCEPT ![t] = Appended(@, now, kind)]
         /\ recorded' = [recorded EXCEPT ![t] = Append(@, Event(now, kind))]
         /\ file' = _save_usage(Appended(usage[t], now, kind), file, outcome)
         /\ owner' = t

\* the state change of RateLimiter.record_request on instance t; the
\* subscript self.usage["requests"] raises before anything is changed
record_request(t, kind, outcome) ==
    IF usage[t].shape # "dict"
    THEN UNCHANGED <<file, usage, recorded, owner>>
    ELSE /\ usage' = [usage EXCEPT ![t] = Appended(@, now, kind)]
         /\ recorded' = [recorded EXCEPT ![t] = Append(@, Event(now, kind))]
         /\ file' = _save_usage(Appended(usage[t], now, kind), file, outcome)
         /\ owner' = IF outcome = "ok" THEN t
                     ELSE IF outcome = "write_failed" \/ owner = t THEN "none"
                     ELSE owner

RecordRequest(t, outcome) ==
    /\ records < MaxRecords
    /\ records' = records + 1
    /\ record_request(t, PatternAnalysis, outcome)
    /\ last' = [op |-> "record", tracker |-> t,
                raised |-> (usage[t].shape # "dict"), save |-> outcome,
                before |-> usage[t], fileBefore |-> file]
    /\ UNCHANGED <<script, stream, invocation, beat>>
    /\ UNCHANGED <<now, ticks, cwd, run>>

(***************************************************************************)
(* PatternDetector._execute_claude_code: the Command Runner.  Its tracker  *)
(* is the instance "detector" (self.rate_limiter).                         *)
(***************************************************************************)
Modes == {"print", "interactive", "streaming"}

\* self.timeout: the default and the value the CLI's tip proposes
Timeouts == {timeout, 2 * timeout}

\* a returned string: which message it is, the output it carries, and for
\* the timeout message the seconds it states and the remedies it lists
Result(kind, text) ==
    [kind |-> kind, text |-> text, seconds |-> 0, remedies |-> <<>>]

NoResult == Result("none", <<>>)

Remedy(flag, value) == [flag |-> flag, value |-> value]

\* TimeoutDiagnostic proposing the timeout that has just run out
TimeoutDiagnostic_SameTimeout(t) ==
    [Result("timeout", <<>>) EXCEPT
        !.seconds = t,
        !.remedies = <<Remedy("--timeout", t), Remedy("--stream", 0),
                       Remedy("--interactive", 0), Remedy("smaller sections", 0),
                       Remedy("session mode", 0)>>]

\* lines 131-138: timeout_msg
TimeoutDiagnostic(t) ==
    [Result("timeout", <<>>) EXCEPT
        !.seconds = t,
        !.remedies = <<Remedy("--timeout", t * 2), Remedy("--stream", 0),
                       Remedy("--interactive", 0), Remedy("smaller sections", 0),
                       Remedy("session mode", 0)>>]

\* path: the function whose return statement ends the call; exc: what
\* subprocess.run raised; stream_exc: the Exception raised inside
\* _execute_claude_code_streaming
Idle(n) ==
    [pc |-> "idle", mode |-> "none", calls |-> n, original_cwd |-> "none",
     proc |-> "none", returncode |-> "None", stdout |-> <<>>,
     cancelled_at |-> "none", result |-> NoResult, before |-> EmptyUsage,
     fileBefore |-> Absent, timeout |-> timeout, path |-> "none",
     exc |-> "none", stream_exc |-> "none"]

Returned(result) ==
    [run EXCEPT !.pc = "returned", !.result = result, !.calls = @ + 1]

\* lines 72-73: original_cwd = os.getcwd(); os.chdir(self.target_path).
\* A missing target directory makes chdir raise FileNotFoundError, which
\* the handler of line 139 turns into the tool-not-found text.
Enter(mode, seconds, target_exists) ==
    /\ run.pc \in {"idle", "returned"}
    /\ run.calls < MaxCalls
    /\ IF target_exists
       THEN /\ cwd' = "target"
            /\ run' = [Idle(run.calls) EXCEPT
                         !.pc = IF mode = "streaming" THEN "popen"
                                ELSE "subprocess",
                         !.path = IF mode = "streaming" THEN "streaming"
                                  ELSE "print",
                         !.mode = mode, !.timeout = seconds,
                         !.original_cwd = cwd,
                         !.before = usage["detector"], !.fileBefore = file]
       ELSE /\ cwd' = cwd
            /\ run' = [Idle(run.calls) EXCEPT
                         !.pc = "returned", !.calls = @ + 1,
                         !.path = "print", !.exc = "FileNotFoundError",
                         !.mode = mode, !.timeout = seconds,
                         !.original_cwd = cwd,
                         !.before = usage["detector"], !.fileBefore = file,
                         !.result = Result("not_found", <<>>)]
    /\ UNCHANGED <<script, stream, invocation, beat>>
    /\ UNCHANGED <<now, ticks, file, usage, recorded, records, owner, last>>

\* what subprocess.run (lines 104-109) can do
SubprocessOutcomes ==
    {"exit_0", "exit_nonzero", "timeout", "not_found", "os_error", "interrupt"}

\* lines 102-143: the print-mode path, also taken in interactive mode and
\* when streaming fell through
RunSubprocess(outcome, out, save) ==
    /\ run.pc = "subprocess"
    /\ IF outcome = "exit_0"
       THEN /\ cwd' = run.original_cwd                        \* line 112
            /\ record_request("detector", PatternAnalysis, save)
            /\ run' = [Returned(
                         IF usage["detector"].shape # "dict"
                         THEN Result("error", <<>>)           \* line 141
                         ELSE IF run.mode = "interactive"
                              THEN Result("interactive", <<>>)
                              ELSE Result("output", strip(out)))
                       EXCEPT !.returncode = "0", !.stdout = out,
                              !.exc = IF usage["detector"].shape # "dict"
                                      THEN "KeyError" ELSE "none"]
       ELSE /\ UNCHANGED <<file, usage, recorded, owner>>
            /\ cwd' = IF outcome \in {"not_found", "interrupt"}
                      THEN cwd                    \* line 139; not caught
                      ELSE run.original_cwd       \* lines 112, 130, 142
            /\ run' = [Returned(
                         CASE outcome = "exit_nonzero" -> Result("error", <<>>)
                           [] outcome = "timeout" -> TimeoutDiagnostic(run.timeout)
                           [] outcome = "not_found" -> Result("not_found", <<>>)
                           [] outcome = "os_error" -> Result("error", <<>>)
                           [] outcome = "interrupt" -> Result("raised", <<>>))
                       EXCEPT !.returncode = IF outcome = "exit_nonzero"
                                             THEN "nonzero" ELSE "None",
                              !.proc = IF outcome = "not_found" THEN "missing"
                                       ELSE @,
                              !.exc =
                                 CASE outcome = "exit_nonzero" -> "none"
                                   [] outcome = "timeout" -> "TimeoutExpired"
                                   [] outcome = "not_found" -> "FileNotFoundError"
                                   [] outcome = "os_error" -> "OSError"
                                   [] outcome = "interrupt" -> "KeyboardInterrupt"]
    /\ UNCHANGED <<script, stream, invocation, beat>>
    /\ UNCHANGED <<now, ticks, records, last>>

(***************************************************************************)
(* PatternDetector._execute_claude_code_streaming.  Whatever it returns,   *)
(* line 96 returns at once: the working directory is left where it is.     *)
(***************************************************************************)
\* lines 169-186: subprocess.Popen and the reader threads
StreamPopen(outcome) ==
    /\ run.pc = "popen"
    /\ run' = IF outcome = "started"
              THEN [run EXCEPT !.pc = "loop", !.proc = "running"]
              ELSE [Returned(Result("stream_error", <<>>))    \* line 323
                    EXCEPT !.proc = IF outcome = "not_found" THEN "missing"
                                    ELSE @,
                           !.stream_exc = IF outcome = "not_found"
                                          THEN "FileNotFoundError"
                                          ELSE "OSError"]
    /\ UNCHANGED <<script, stream, invocation, beat>>
    /\ UNCHANGED <<now, ticks, file, usage, recorded, records, owner, last,
                   cwd>>

\* lines 204-290: the process exits, the loop ends, what is left on the
\* queues is collected and the reader threads are joined
StreamProcessExit(code, out) ==
    /\ run.pc = "loop"
    /\ run' = [run EXCEPT !.pc = "joined", !.proc = "exited",
                          !.returncode = code, !.stdout = out]
    /\ UNCHANGED <<script, stream, invocation, beat>>
    /\ UNCHANGED <<now, ticks, file, usage, recorded, records, owner, last,
                   cwd>>

\* StreamCheckReturn that records the request whatever the return code
StreamCheckReturn_AnyCode(save) ==
    /\ run.pc = "joined"
    /\ record_request("detector", PatternAnalysis, save)
    /\ run' = IF usage["detector"].shape # "dict"
              THEN [Returned(Result("stream_error", <<>>))
                    EXCEPT !.stream_exc = "KeyError"]
              ELSE IF run.returncode = "0" THEN [run EXCEPT !.pc = "recorded"]
              ELSE Returned(Result("error", <<>>))
    /\ UNCHANGED <<script, stream, invocation, beat>>
    /\ UNCHANGED <<now, ticks, records, last, cwd>>

\* lines 295-312: the return code
StreamCheckReturn(save) ==
    /\ run.pc = "joined"
    /\ IF run.returncode = "0"
       THEN /\ record_request("detector", PatternAnalysis, save)
            /\ run' = IF usage["detector"].shape # "dict"
                      THEN [Returned(Result("stream_error", <<>>)) \* line 323
                            EXCEPT !.stream_exc = "KeyError"]
                      ELSE [run EXCEPT !.pc = "recorded"]
       ELSE /\ UNCHANGED <<file, usage, recorded, owner>>
            /\ run' = Returned(Result("error", <<>>))
    /\ UNCHANGED <<script, stream, invocation, beat>>
    /\ UNCHANGED <<now, ticks, records, last, cwd>>

\* lines 298-309: '\n'.join(output_lines) of the right-stripped lines
StreamReport ==
    /\ run.pc = "recorded"
    /\ run' = Returned(IF strip(rstrip(run.stdout)) = <<>>
                       THEN Result("no_output", <<>>)
                       ELSE Result("output", rstrip(run.stdout)))
    /\ UNCHANGED <<script, stream, invocation, beat>>
    /\ UNCHANGED <<now, ticks, file, usage, recorded, records, owner, last,
                   cwd>>

\* lines 314-317: KeyboardInterrupt anywhere inside the try of line 167;
\* the handler calls process.terminate(), which signals a process that has
\* not exited yet.  Before Popen has returned, "process" is unbound: the
\* handler itself raises, line 97 catches that and the print-mode path runs.
Interrupt ==
    /\ run.pc \in {"popen", "loop", "joined", "recorded"}
    /\ run' = IF run.pc = "popen"
              THEN [run EXCEPT !.pc = "subprocess", !.path = "print",
                               !.cancelled_at = "popen",
                               !.stream_exc = "UnboundLocalError"]
              ELSE [run EXCEPT !.pc = "wait", !.cancelled_at = run.pc,
                               !.proc = IF @ = "running" THEN "terminating"
                                        ELSE @]
    /\ UNCHANGED <<script, stream, invocation, beat>>
    /\ UNCHANGED <<now, ticks, file, usage, recorded, records, owner, last,
                   cwd>>

\* lines 318-322: process.wait(timeout=5) returns when the process has
\* exited; after 5 seconds it raises TimeoutExpired and the process is
\* killed.  Then the cancelled text is returned.
StreamWait(exited) ==
    /\ run.pc = "wait"
    /\ run.proc # "terminating" => exited
    /\ run' = [Returned(Result("cancelled", <<>>))
               EXCEPT !.proc = IF run.proc # "terminating" THEN @
                               ELSE IF exited THEN "terminated" ELSE "killed"]
    /\ UNCHANGED <<script, stream, invocation, beat>>
    /\ UNCHANGED <<now, ticks, file, usage, recorded, records, owner, last,
                   cwd>>

\* a second KeyboardInterrupt while the handler waits: nothing catches it
\* (line 97 catches Exception only) and the call raises; the process has
\* been signalled and nothing more
InterruptWait ==
    /\ run.pc = "wait"
    /\ run' = Returned(Result("raised", <<>>))
    /\ UNCHANGED <<script, stream, invocation, beat>>
    /\ UNCHANGED <<now, ticks, file, usage, recorded, records, owner, last,
                   cwd>>

(***************************************************************************)
(* scripts/generate_service_collab_prompt.py                               *)
(***************************************************************************)
Names == {"Saga", "API Composition", "CQRS"}

\* an entry of the list: a mapping with a "name", or one without
Entries == [hasName : {TRUE}, name : Names] \cup {[hasName |-> FALSE, name |-> ""]}

\* the loaded YAML: without the key, with the key holding a list, or with
\* the key holding nothing (null)
ServiceSpecs ==
    {[key |-> "absent", value |-> <<>>], [key |-> "null", value |-> <<>>]}
        \cup {[key |-> "list", value |-> v] :
                 v \in UNION {[1..n -> Entries] : n \in 0..MaxPatterns}}

\* join that puts the last name first
join_Reversed(sep, strs) ==
    [i \in 1..(IF strs = <<>> THEN 0 ELSE 2 * Len(strs) - 1) |->
        IF i % 2 = 1 THEN strs[Len(strs) + 1 - (i + 1) \div 2] ELSE sep]

\* sep.join(strs), as the pieces of the resulting text
join(sep, strs) ==
    [i \in 1..(IF strs = <<>> THEN 0 ELSE 2 * Len(strs) - 1) |->
        IF i % 2 = 1 THEN strs[(i + 1) \div 2] ELSE sep]

\* the literal text of the f-string before and after {pattern_list}
PromptHead == "# Service Collaboration Scan Prompt ... Supported patterns: "

PromptTail == ". ... Provide CODE_PATH when invoking this script ..."

\* build_prompt(spec): the pieces of the returned text, or the exception
build_prompt(spec) ==
    LET listed == IF spec.key = "absent" THEN <<>> ELSE spec.value
        patterns == [i \in 1..Len(listed) |-> listed[i].name]
        pattern_list == join(", ", patterns)
    IN  IF spec.key = "null"
        THEN [raised |-> "TypeError", prompt |-> <<>>]
        ELSE IF \E i \in 1..Len(listed) : ~listed[i].hasName
             THEN [raised |-> "KeyError", prompt |-> <<>>]
             ELSE [raised |-> "none",
                   prompt |-> <<PromptHead>> \o pattern_list \o <<PromptTail>>]

NoScript == [pc |-> "none"]

NoStream == [pc |-> "none"]

NoBeat == [pc |-> "none"]

(***************************************************************************)
(* _execute_claude_code_streaming in detail: the subprocess, its two       *)
(* pipes, the two stream_output threads, the two queues and the main loop. *)
(* A line is the text before its newline; a queue holds the strings put on *)
(* it, oldest first; echoed holds the stream lines printed, in the order   *)
(* of the display.                                                         *)
(***************************************************************************)
Streams == {"stdout", "stderr"}

\* what the subprocess writes: a line with trailing blanks, an indented
\* line, and on stderr a line with the text ExperimentalWarning ("W")
LineTexts ==
    [stdout |-> {<<"x", " ">>, <<" ", "x">>}, stderr |-> {<<"x", " ">>, <<"W">>}]

\* the prefix argument of stream_output (lines 179-180)
Prefix == [stdout |-> <<>>, stderr |-> <<"[ERROR] ">>]

ReadFailure == <<"Error reading stream: ">>

\* lines 245 and 282: the warnings of Node.js are dropped
Warning(line) == \E i \in 1..Len(line) : line[i] = "W"

\* "\n".join(lines), as one text
RECURSIVE JoinLines(_)
JoinLines(lines) ==
    IF lines = <<>> THEN <<>>
    ELSE IF Len(lines) = 1 THEN lines[1]
    ELSE lines[1] \o <<"\n">> \o JoinLines(Tail(lines))

\* the state after lines 169-202: process started, threads started
Started ==
    [pc |-> "poll", process |-> "running", returncode |-> "None",
     wrote |-> [s \in Streams |-> <<>>],
     pipe |-> [s \in Streams |-> <<>>],
     thread |-> [s \in Streams |-> "reading"],
     queue |-> [s \in Streams |-> <<>>],
     lines |-> [s \in Streams |-> <<>>],
     echoed |-> <<>>, no_output_count |-> 0, result |-> NoResult]

StreamFrame ==
    UNCHANGED <<now, ticks, file, usage, recorded, records, owner, last, cwd,
                run, script, invocation, beat>>

\* the subprocess writes one line to stdout or stderr
ProcessWrites(s, text) ==
    /\ stream.pc \notin {"none", "returned"}
    /\ stream.process = "running"
    /\ Len(stream.wrote.stdout) + Len(stream.wrote.stderr) < MaxLines
    /\ stream' = [stream EXCEPT !.wrote[s] = Append(@, text),
                                !.pipe[s] = Append(@, text)]
    /\ StreamFrame

\* the subprocess exits; what it wrote stays in the pipes
ProcessExits(code) ==
    /\ stream.pc \notin {"none", "returned"}
    /\ stream.process = "running"
    /\ stream' = [stream EXCEPT !.process = "exited", !.returncode = code]
    /\ StreamFrame

\* stream_output putting the lines on the queue newest first
stream_output_Stack(s) ==
    /\ stream.pc \notin {"none", "returned"}
    /\ stream.thread[s] = "reading"
    /\ IF stream.pipe[s] # <<>>
       THEN stream' = [stream EXCEPT
                         !.pipe[s] = Tail(@),
                         !.queue[s] = <<Prefix[s] \o rstrip(Head(stream.pipe[s]))>>
                                         \o @]
       ELSE /\ stream.process = "exited"
            /\ stream' = [stream EXCEPT !.thread[s] = "finished"]
    /\ StreamFrame

\* lines 157-161, one turn of the thread of stream s: readline returns the
\* next line and it is put on the queue, right-stripped behind the prefix;
\* at end of file the thread finishes
stream_output(s) ==
    /\ stream.pc \notin {"none", "returned"}
    /\ stream.thread[s] = "reading"
    /\ IF stream.pipe[s] # <<>>
       THEN stream' = [stream EXCEPT
                         !.pipe[s] = Tail(@),
                         !.queue[s] = Append(@, Prefix[s]
                                                \o rstrip(Head(stream.pipe[s])))]
       ELSE /\ stream.process = "exited"
            /\ stream' = [stream EXCEPT !.thread[s] = "finished"]
    /\ StreamFrame

\* lines 162-163: readline raises on the next line (bytes that do not
\* decode); the thread reports it on its queue and finishes
stream_output_fails(s) ==
    /\ stream.pc \notin {"none", "returned"}
    /\ stream.thread[s] = "reading"
    /\ stream.pipe[s] # <<>>
    /\ stream' = [stream EXCEPT !.pipe[s] = Tail(@),
                                !.queue[s] = Append(@, ReadFailure),
                                !.thread[s] = "finished"]
    /\ StreamFrame

\* line 204: while process.poll() is None
PollProcess ==
    /\ stream.pc = "poll"
    /\ stream' = [stream EXCEPT
                     !.pc = IF stream.process = "running" THEN "output"
                            ELSE "remaining_output"]
    /\ StreamFrame

\* lines 208-237 and 270-276: output_queue.get_nowait(), print, append
GetOutputLine ==
    /\ stream.pc \in {"output", "remaining_output"}
    /\ IF stream.queue.stdout # <<>>
       THEN stream' = [stream EXCEPT
                         !.queue.stdout = Tail(@),
                         !.lines.stdout = Append(@, Head(stream.queue.stdout)),
                         !.echoed = Append(@, [of |-> "stdout",
                                               text |-> Head(stream.queue.stdout)]),
                         !.no_output_count = IF stream.pc = "output" THEN 0
                                             ELSE @]
       ELSE stream' = [stream EXCEPT             \* queue.Empty
                         !.pc = IF @ = "output" THEN "errors"
                                ELSE "remaining_errors"]
    /\ StreamFrame

\* lines 242-251 and 279-286: error_queue.get_nowait(), filter, print, append
GetErrorLine ==
    /\ stream.pc \in {"errors", "remaining_errors"}
    /\ IF stream.queue.stderr # <<>>
       THEN stream' = [stream EXCEPT
                         !.queue.stderr = Tail(@),
                         !.lines.stderr =
                            IF Warning(Head(stream.queue.stderr)) THEN @
                            ELSE Append(@, Head(stream.queue.stderr)),
                         !.echoed =
                            IF Warning(Head(stream.queue.stderr)) THEN @
                            ELSE Append(@, [of |-> "stderr",
                                            text |-> Head(stream.queue.stderr)])]
       ELSE stream' = [stream EXCEPT             \* queue.Empty
                         !.pc = IF @ = "errors" THEN "heartbeat" ELSE "join"]
    /\ StreamFrame

\* lines 254-267: when heartbeat_interval has passed since the last line
\* or heartbeat (due), count it; the [INFO] line printed for the first
\* three and then every sixth is no line of a stream and is left out of
\* echoed.  Then sleep and poll again.
Heartbeat(due) ==
    /\ stream.pc = "heartbeat"
    /\ due => stream.no_output_count < MaxBeats
    /\ stream' = [stream EXCEPT
                     !.pc = "poll",
                     !.no_output_count = IF due THEN @ + 1 ELSE @]
    /\ StreamFrame

\* JoinThreads with join() waiting without a timeout
JoinThreads_Unbounded ==
    /\ stream.pc = "join"
    /\ \A s \in Streams : stream.thread[s] = "finished"
    /\ stream' = [stream EXCEPT !.pc = "check"]
    /\ StreamFrame

\* lines 288-290: join(timeout=2) on both threads; they may still be reading
JoinThreads ==
    /\ stream.pc = "join"
    /\ stream' = [stream EXCEPT !.pc = "check"]
    /\ StreamFrame

\* lines 295-312: the return code, record_request, the result
ReturnResult(save) ==
    /\ stream.pc = "check"
    /\ IF stream.returncode = "0"
       THEN /\ record_request("detector", PatternAnalysis, save)
            /\ stream' = [stream EXCEPT
                  !.pc = "returned",
                  !.result =
                     IF usage["detector"].shape # "dict"
                     THEN Result("stream_error", <<>>)        \* line 323
                     ELSE IF strip(JoinLines(stream.lines.stdout)) = <<>>
                          THEN Result("no_output", <<>>)
                          ELSE Result("output", JoinLines(stream.lines.stdout))]
       ELSE /\ UNCHANGED <<file, usage, recorded, owner>>
            /\ stream' = [stream EXCEPT
                  !.pc = "returned",
                  !.result =
                     Result("error",
                            IF stream.lines.stderr = <<>>  \* line 311
                            THEN <<"Process exited with code ">>
                            ELSE JoinLines(stream.lines.stderr))]
    /\ UNCHANGED <<now, ticks, records, last, cwd, run, script, invocation,
                   beat>>

(***************************************************************************)
(* The streaming main loop against the clock (lines 199-267).  Time is     *)
(* counted in sleeps of the loop, half seconds.                            *)
(***************************************************************************)
\* --timeout values under which the loop is run, in seconds
BeatTimeouts == {30}

Arrivals == {"stdout", "stderr", "warning"}

NoInterval == [completed |-> FALSE, printed |-> "none", silent |-> 0]

\* the state after line 202: clock is time.time() - start_time; silent
\* counts the heartbeat intervals gone by since a line was last printed
Beating(seconds) ==
    [pc |-> "loop", process |-> "running", interrupted |-> FALSE,
     timeout |-> seconds, clock |-> 0, last_heartbeat |-> 0,
     no_output_count |-> 0, pending |-> "none", arrivals |-> 0,
     silent |-> 0, interval |-> NoInterval]

BeatFrame ==
    UNCHANGED <<now, ticks, file, usage, recorded, records, owner, last, cwd,
                run, script, stream, invocation>>

\* a reader thread puts a line on its queue: a stdout line, a stderr line,
\* or a stderr line with the text ExperimentalWarning
LineArrives(kind) ==
    /\ beat.pc = "loop"
    /\ beat.process = "running"
    /\ beat.pending = "none"
    /\ beat.arrivals < MaxArrivals
    /\ beat' = [beat EXCEPT !.pending = kind, !.arrivals = @ + 1,
                            !.interval = NoInterval]
    /\ BeatFrame

\* the subprocess exits by itself
BeatProcessExits ==
    /\ beat.pc = "loop"
    /\ beat.process = "running"
    /\ beat' = [beat EXCEPT !.process = "exited", !.interval = NoInterval]
    /\ BeatFrame

\* lines 256-260: what the heartbeat prints at count n
Message(n) ==
    IF n <= VerboseBeats THEN "still_processing"
    ELSE IF n % QuietPeriod = 0 THEN "long_running" ELSE "none"

\* Turn that gives up once self.timeout has run out
Turn_TimedOut ==
    /\ beat.pc = "loop"
    /\ beat.clock < MaxClock
    /\ beat' = IF beat.process # "running"
               THEN [beat EXCEPT !.pc = "ended", !.interval = NoInterval]
               ELSE IF beat.clock >= beat.timeout * SleepsPerSecond
               THEN [beat EXCEPT !.pc = "ended", !.process = "killed",
                                 !.interval = NoInterval]
               ELSE [beat EXCEPT !.clock = @ + 1, !.pending = "none",
                                 !.interval = NoInterval]
    /\ BeatFrame

\* one turn of the loop of line 204: poll; both queues are emptied, a
\* stdout line resetting last_heartbeat and no_output_count, a stderr line
\* that is printed resetting last_heartbeat; the heartbeat of lines 253-264;
\* the sleep of line 267
Turn ==
    LET shown == beat.pending \in {"stdout", "stderr"}
        since == IF shown THEN beat.clock ELSE beat.last_heartbeat
        count == IF beat.pending = "stdout" THEN 0 ELSE beat.no_output_count
        quiet == IF shown THEN 0 ELSE beat.silent
        due == beat.clock - since >= heartbeat_interval * SleepsPerSecond
    IN  /\ beat.pc = "loop"
        /\ beat.clock < MaxClock
        /\ beat' =
              IF beat.process # "running"
              THEN [beat EXCEPT !.pc = "ended", !.interval = NoInterval]
              ELSE [beat EXCEPT
                      !.pending = "none",
                      !.no_output_count = IF due THEN count + 1 ELSE count,
                      !.last_heartbeat = IF due THEN beat.clock ELSE since,
                      !.silent = IF due THEN quiet + 1 ELSE quiet,
                      !.interval =
                         IF due
                         THEN [completed |-> TRUE,
                               printed |-> Message(count + 1),
                               silent |-> quiet + 1]
                         ELSE NoInterval,
                      !.clock = @ + 1]
        /\ BeatFrame

\* lines 314-322: the caller interrupts; terminate, wait, kill when the
\* subprocess has not exited within the grace period
BeatInterrupt(exited) ==
    /\ beat.pc = "loop"
    /\ beat' = [beat EXCEPT
                   !.pc = "ended", !.interrupted = TRUE,
                   !.process = IF beat.process = "exited" THEN "exited"
                               ELSE IF exited THEN "terminated" ELSE "killed",
                   !.interval = NoInterval]
    /\ BeatFrame

\* prompt = build_prompt(spec)
BuildPrompt ==
    /\ script.pc = "loaded"
    /\ script' = [script EXCEPT !.pc = "built",
                                !.result = build_prompt(script.spec)]
    /\ UNCHANGED <<now, ticks, file, usage, recorded, records, owner, last,
                   cwd, run, stream, invocation, beat>>

(***************************************************************************)
(* cli.py: one invocation of an analysis subcommand.  The gate builds its  *)
(* own RateLimiter (instance "cli"); the PatternDetector built afterwards  *)
(* holds the instance "detector", which does the recording.                *)
(***************************************************************************)
Singles == {"algorithms", "design_patterns", "architectural", "cloud"}

Commands == Singles \cup {"all"}

\* how many patterns 'all' is given with -p: one, or several
Chosen == {1, 2}

NoInvocation == [pc |-> "none"]

\* no invocation running; n invocations have been made
Prompt(n) ==
    [pc |-> "idle", command |-> "none", execute |-> FALSE, dry_run |-> FALSE,
     chain |-> FALSE, confirm |-> FALSE, patterns |-> 0, remaining |-> 0,
     gate |-> "none", invoked |-> 0, recorded |-> 0, ended |-> "none",
     fileBefore |-> Absent, invocations |-> n]

CliFrame == UNCHANGED <<ticks, records, cwd, run, script, stream, beat>>

\* the command line is parsed into ctx.obj and the subcommand is entered;
\* n is the number of patterns 'all' is given
Invoke(command, execute, dry_run, chain, confirm, n) ==
    /\ invocation.pc = "idle"
    /\ invocation.invocations < MaxInvocations
    /\ command \in Singles => n = 1 /\ ~chain
    /\ invocation' = [Prompt(invocation.invocations + 1) EXCEPT
                         !.pc = IF execute THEN "gate" ELSE "construct",
                         !.command = command, !.execute = execute,
                         !.dry_run = dry_run, !.chain = chain,
                         !.confirm = confirm, !.patterns = n,
                         !.fileBefore = file]
    /\ last' = [op |-> "invoke"]
    /\ CliFrame
    /\ UNCHANGED <<now, file, usage, recorded, owner>>

\* what the subcommand does with the gate's answer
Cancelled == [invocation EXCEPT !.pc = "idle", !.ended = "cancelled"]

\* _check_rate_limit_and_confirm without the test of can_proceed
Gate_Unchecked(answer, proceed) ==
    LET loaded == _load_usage(file)
    IN  /\ invocation.pc = "gate"
        /\ recorded' = [recorded EXCEPT !["cli"] = loaded.requests]
        /\ usage' = [usage EXCEPT !["cli"] =
                        IF Raises(loaded) THEN loaded
                        ELSE _clean_old_requests(loaded, now)]
        /\ invocation' =
              IF Raises(loaded)
              THEN [invocation EXCEPT !.pc = "idle", !.gate = "raised",
                                      !.ended = "crashed"]
              ELSE [invocation EXCEPT
                       !.pc = "construct",
                       !.gate = IF check_rate_limit(loaded, now).allowed
                                THEN "allowed" ELSE "denied"]
        /\ last' = [op |-> "gate"]
        /\ CliFrame
        /\ UNCHANGED <<now, file, owner>>

\* the guard every analysis subcommand opens with, when --execute is set:
\* _check_rate_limit_and_confirm (a new RateLimiter, check_rate_limit, on
\* denial time_until_reset and False; else get_usage_stats and the answer to
\* "Continue with analysis?" when confirmation is on), and for 'all' with
\* several separate patterns the answer to "Proceed with multiple requests?"
Gate(answer, proceed) ==
    LET loaded == _load_usage(file)
        asked == invocation.confirm
        again == /\ invocation.command = "all" /\ ~invocation.chain
                 /\ invocation.patterns > 1 /\ invocation.confirm
    IN  /\ invocation.pc = "gate"
        /\ ~asked => answer
        /\ (~asked \/ ~answer \/ ~again) => proceed
        /\ recorded' = [recorded EXCEPT !["cli"] = loaded.requests]
        /\ usage' = [usage EXCEPT !["cli"] =
                        IF Raises(loaded) THEN loaded
                        ELSE _clean_old_requests(loaded, now)]
        /\ invocation' =
              IF Raises(loaded)
              THEN [invocation EXCEPT !.pc = "idle", !.gate = "raised",
                                      !.ended = "crashed"]
              ELSE IF ~check_rate_limit(loaded, now).allowed
              THEN [Cancelled EXCEPT !.gate = "denied"]
              ELSE IF ~answer \/ ~proceed
              THEN [Cancelled EXCEPT !.gate = "allowed"]
              ELSE [invocation EXCEPT !.pc = "construct", !.gate = "allowed"]
        /\ last' = [op |-> "gate"]
        /\ CliFrame
        /\ UNCHANGED <<now, file, owner>>

\* PatternDetector(...): its RateLimiter loads the storage file
ConstructDetector ==
    /\ invocation.pc = "construct"
    /\ usage' = [usage EXCEPT !["detector"] = _load_usage(file)]
    /\ recorded' = [recorded EXCEPT !["detector"] = _load_usage(file).requests]
    /\ invocation' = [invocation EXCEPT
                         !.pc = "run",
                         !.remaining =
                            IF invocation.chain /\ invocation.execute THEN 1
                            ELSE invocation.patterns]
    /\ last' = [op |-> "construct", tracker |-> "detector"]
    /\ CliFrame
    /\ UNCHANGED <<now, file, owner>>

\* which branch one request of the subcommand takes
Chained == invocation.command = "all" /\ invocation.chain /\ invocation.execute

\* _analyze_with_ai_prompt: the dry-run text, the tool, or the placeholder
Branch ==
    IF invocation.dry_run THEN "dry_run"
    ELSE IF invocation.execute THEN "tool" ELSE "placeholder"

\* whether the request reaches _execute_claude_code:
\* detect_all_patterns_chained tests only self.execute
RunsTool == IF Chained THEN invocation.execute ELSE Branch = "tool"

\* one request: detect_all_patterns_chained, or one detect_* call of the
\* subcommand (of the loop of 'all'); the tool, when it is run, exits with
\* code 0 (then the detector records) or fails
Request(exit_0, save) ==
    LET records_it == RunsTool /\ exit_0 /\ usage["detector"].shape = "dict"
        left == invocation.remaining - 1
    IN  /\ invocation.pc = "run"
        /\ invocation.remaining > 0
        /\ ~RunsTool => exit_0 /\ save = "ok"
        /\ ~exit_0 => save = "ok"
        /\ IF RunsTool /\ exit_0
           THEN record_request("detector", PatternAnalysis, save)
           ELSE UNCHANGED <<file, usage, recorded, owner>>
        /\ invocation' = [invocation EXCEPT
                             !.remaining = left,
                             !.pc = IF left = 0 THEN "idle" ELSE "run",
                             !.ended = IF left = 0 THEN "finished" ELSE "none",
                             !.invoked = IF RunsTool THEN @ + 1 ELSE @,
                             !.recorded = IF records_it THEN @ + 1 ELSE @]
        /\ last' = [op |-> "request", tool |-> RunsTool, exit_0 |-> exit_0,
                    save |-> save]
        /\ CliFrame
        /\ UNCHANGED now

(***************************************************************************)
(* The Usage Tracker counting: one instance, logs near the limits          *)
(***************************************************************************)
InitUsage(files) ==
    /\ now = Start
    /\ ticks = 0
    /\ file \in files
    /\ usage = [t \in Trackers |-> _load_usage(file)]
    /\ recorded = [t \in Trackers |-> _load_usage(file).requests]
    /\ records = 0
    /\ owner = "none"
    /\ last = NoOp
    /\ cwd = "original"
    /\ run = Idle(0)

InitWith(files) ==
    /\ InitUsage(files)
    /\ script = NoScript
    /\ stream = NoStream
    /\ invocation = NoInvocation
    /\ beat = NoBeat

InitTracker == InitWith(MalformedFiles \cup FullFiles)

NextTracker ==
    \/ \E d \in TickSteps : Tick(d)
    \/ Construct("cli")
    \/ CheckRateLimit("cli")
    \/ GetUsageStats("cli")
    \/ TimeUntilReset("cli")
    \/ RecordRequest("cli", "ok")

SpecTracker == InitTracker /\ [][NextTracker]_vars

(***************************************************************************)
(* The Usage Tracker storing: two instances over one storage file, every   *)
(* outcome of a write                                                      *)
(***************************************************************************)
InitStore == InitWith(MalformedFiles \cup SmallFiles)

NextStore ==
    \/ Tick(MINUTE - 1)
    \/ \E t \in Trackers : Construct(t)
    \/ \E t \in Trackers : CheckRateLimit(t)
    \/ \E t \in Trackers : GetUsageStats(t)
    \/ \E t \in Trackers : TimeUntilReset(t)
    \/ \E t \in Trackers, outcome \in SaveOutcomes : RecordRequest(t, outcome)

SpecStore == InitStore /\ [][NextStore]_vars


(***************************************************************************)
(* The Command Runner with its tracker                                     *)
(***************************************************************************)
InitRunner == InitWith(MalformedFiles \cup {json_dump(PreUsage(1, 0, 1))})

NextRunner ==
    \/ Tick(MINUTE - 1)
    \/ \E mode \in Modes, target_exists \in BOOLEAN :
          Enter(mode, timeout, target_exists)
    \/ \E outcome \in SubprocessOutcomes, out \in Texts, save \in SaveOutcomes :
          RunSubprocess(outcome, out, save)
    \/ \E outcome \in {"started", "not_found", "os_error"} : StreamPopen(outcome)
    \/ \E code \in {"0", "nonzero"}, out \in Texts : StreamProcessExit(code, out)
    \/ \E save \in SaveOutcomes : StreamCheckReturn(save)
    \/ StreamReport
    \/ Interrupt
    \/ \E exited \in BOOLEAN : StreamWait(exited)
    \/ InterruptWait

SpecRunner == InitRunner /\ [][NextRunner]_vars

(***************************************************************************)
(* The print-mode path alone, under each timeout                           *)
(***************************************************************************)
NextPrint ==
    \/ \E mode \in {"print", "interactive"}, seconds \in Timeouts,
          target_exists \in BOOLEAN : Enter(mode, seconds, target_exists)
    \/ \E outcome \in SubprocessOutcomes, out \in Texts, save \in SaveOutcomes :
          RunSubprocess(outcome, out, save)

SpecPrint == InitRunner /\ [][NextPrint]_vars

(***************************************************************************)
(* The prompt script on every loaded spec                                  *)
(***************************************************************************)
InitPrompt ==
    /\ InitUsage({Absent})
    /\ script \in [pc : {"loaded"}, spec : ServiceSpecs,
                    result : {[raised |-> "none", prompt |-> <<>>]}]
    /\ stream = NoStream
    /\ invocation = NoInvocation
    /\ beat = NoBeat

NextPrompt == BuildPrompt

SpecPrompt == InitPrompt /\ [][NextPrompt]_vars

(***************************************************************************)
(* The CLI: invocations one after another, logs at and just under the      *)
(* minute limit                                                            *)
(***************************************************************************)
CliFiles ==
    {Absent, json_dump(PreUsage(0, 0, requests_per_minute - 1)),
     json_dump(PreUsage(0, 0, requests_per_minute)), json_dump(BadEntryUsage)}

InitCli ==
    /\ InitUsage(CliFiles)
    /\ script = NoScript
    /\ stream = NoStream
    /\ invocation = Prompt(0)
    /\ beat = NoBeat

NextCli ==
    \/ Tick(1)
    \/ \E command \in Commands, execute, dry_run, chain, confirm \in BOOLEAN,
          n \in Chosen :
          Invoke(command, execute, dry_run, chain, confirm, n)
    \/ \E answer, proceed \in BOOLEAN : Gate(answer, proceed)
    \/ ConstructDetector
    \/ \E exit_0 \in BOOLEAN : Request(exit_0, "ok")

SpecCli == InitCli /\ [][NextCli]_vars

(***************************************************************************)
(* The streaming main loop against the clock                               *)
(***************************************************************************)
InitBeat ==
    /\ InitUsage({Absent})
    /\ script = NoScript
    /\ stream = NoStream
    /\ invocation = NoInvocation
    /\ beat \in {Beating(seconds) : seconds \in BeatTimeouts}

NextBeat ==
    \/ \E kind \in Arrivals : LineArrives(kind)
    \/ BeatProcessExits
    \/ Turn
    \/ \E exited \in BOOLEAN : BeatInterrupt(exited)

SpecBeat == InitBeat /\ [][NextBeat]_vars

(***************************************************************************)
(* The streaming run in detail                                             *)
(***************************************************************************)
InitStream ==
    /\ InitUsage({Absent})
    /\ script = NoScript
    /\ stream = Started
    /\ invocation = NoInvocation
    /\ beat = NoBeat

NextStream ==
    \/ \E s \in Streams : \E text \in LineTexts[s] : ProcessWrites(s, text)
    \/ \E code \in {"0", "nonzero"} : ProcessExits(code)
    \/ \E s \in Streams : stream_output(s)
    \/ \E s \in Streams : stream_output_fails(s)
    \/ PollProcess
    \/ GetOutputLine
    \/ GetErrorLine
    \/ \E due \in BOOLEAN : Heartbeat(due)
    \/ JoinThreads
    \/ \E save \in SaveOutcomes : ReturnResult(save)

SpecStream == InitStream /\ [][NextStream]_vars

\* the steps of the main thread: none of them blocks (get_nowait, poll,
\* sleep(0.5), join(timeout=2)), so the main thread always takes its next
\* step; the reader threads and the subprocess are under no such promise
MainThread ==
    \/ PollProcess
    \/ GetOutputLine
    \/ GetErrorLine
    \/ \E due \in BOOLEAN : Heartbeat(due)
    \/ JoinThreads
    \/ \E save \in SaveOutcomes : ReturnResult(save)

SpecStreamFair == SpecStream /\ WF_vars(MainThread)

(***************************************************************************)
(* Properties                                                              *)
(***************************************************************************)
\* the age of an event, in seconds
Age(req) == now - fromisoformat(req.timestamp)

\* how many events of a log are younger than length
Younger(reqs, length) ==
    Cardinality({i \in 1..Len(reqs) : Age(reqs[i]) < length})

\* C1: when a Command Runner call returns, in any mode and on any exit
\* path, the working directory is the one the call started in.
C1_WorkingDirectoryRestored ==
    (run.pc = "returned" /\ run.result.kind # "raised")
        => cwd = run.original_cwd

\* C2: a print or streaming call whose subprocess exited with code 0 has
\* appended exactly one event to the detector's log, and in print mode it
\* returns the trimmed standard output.
C2_SuccessRecordsOneEvent ==
    (run.pc = "returned" /\ run.mode \in {"print", "streaming"}
                         /\ run.returncode = "0")
        => /\ Len(usage["detector"].requests) = Len(run.before.requests) + 1
           /\ SubSeq(usage["detector"].requests, 1, Len(run.before.requests))
                 = run.before.requests
           /\ run.mode = "print" => run.result = Result("output", strip(run.stdout))

FailureKinds == {"not_found", "timeout", "error", "cancelled", "stream_error"}

LogUntouched == usage["detector"] = run.before /\ file = run.fileBefore

Log == usage[last.tracker].requests

Checked == last.op = "check" /\ ~last.raised

\* C4: check_rate_limit refuses, naming the minute window, when exactly 10
\* events are younger than 60 seconds, and allows with "OK" when exactly 9
\* are (hour and day under their limits); an event aged exactly 60 seconds
\* is not among those counted.
C4_MinuteLimit ==
    Checked =>
        /\ Younger(Log, MINUTE) = requests_per_minute
              => (~last.result.allowed /\ last.result.per = "minute")
        /\ (/\ Younger(Log, MINUTE) = requests_per_minute - 1
            /\ Younger(Log, HOUR) < requests_per_hour
            /\ Younger(Log, DAY) < requests_per_day)
              => last.result = OK
        /\ last.result.per = "minute"
              => last.result.count = Younger(Log, MINUTE)

C4_Witness ==
    /\ Checked
    /\ Younger(Log, MINUTE) = requests_per_minute
    /\ ~last.result.allowed

\* C5: get_usage_stats().total_requests is the number of events the
\* instance has loaded or recorded that are younger than 24 hours now.
C5_TotalRequests ==
    (last.op = "stats" /\ ~last.raised)
        => last.result.total_requests = Younger(recorded[last.tracker], DAY)

C5_Witness ==
    /\ last.op = "stats" /\ ~last.raised
    /\ last.result.total_requests > 0
    /\ last.result.total_requests < Len(recorded[last.tracker])

\* C6: a log that has just been written to storage holds no event older
\* than 24 hours.
C6_PersistedLogPruned ==
    (last.op = "record" /\ ~last.raised /\ last.save = "ok")
        => \A i \in 1..Len(_load_usage(file).requests) :
              LET req == _load_usage(file).requests[i]
              IN  Parsable(req.timestamp) => Age(req) <= DAY

\* C7: whatever the storage file holds that is not a log (absent, not JSON,
\* JSON of another shape), check_rate_limit on an instance constructed from
\* it raises nothing and returns (true, "OK").
C7_MalformedStorageIsEmpty ==
    (/\ last.op = "check"
     /\ file \in MalformedFiles
     /\ recorded[last.tracker] = _load_usage(file).requests)
        => (~last.raised /\ last.result = OK)

\* the events of a log that the 24-hour cutoff keeps
Retained(reqs) == SelectSeq(reqs, LAMBDA req : Age(req) < DAY)

Reloaded ==
    /\ last.op = "construct"
    /\ owner \notin {"none", last.tracker}
    /\ ~Raises(usage[owner])

\* C8: an instance constructed from the file another instance has written
\* holds the writer's events, in the writer's order, apart from what the
\* 24-hour cutoff drops.
C8_RoundTrip ==
    Reloaded => Retained(Log) = Retained(usage[owner].requests)

C8_Witness ==
    /\ Reloaded
    /\ Len(Retained(Log)) >= 2
    /\ Log # usage[owner].requests

FailedWrite == last.op = "record" /\ ~last.raised /\ last.save # "ok"

InMemory == Log = Append(last.before.requests, Event(now, PatternAnalysis))

\* C9 as stated: when the write fails, record_request raises nothing, the
\* event is in the in-memory log, and the storage file keeps its content.
C9_FailedWriteKeepsFile ==
    FailedWrite => (InMemory /\ file = last.fileBefore)

\* C9 amended: the file keeps its content when it could not be opened; when
\* the write failed after the file was opened, the file reads as an empty log.
C9_FailedWriteKeepsMemory ==
    FailedWrite =>
        /\ InMemory
        /\ last.save = "open_failed" => file = last.fileBefore
        /\ last.save = "write_failed" => _load_usage(file) = EmptyUsage

C9_Witness ==
    /\ FailedWrite
    /\ last.save = "open_failed"
    /\ Len(_load_usage(file).requests) > 0
    /\ Len(Log) = Len(_load_usage(file).requests) + 1

\* the events of Log inside window w, by position
Inside(w) == {i \in 1..Len(Log) : Age(Log[i]) < WindowLength[w]}

\* the time of the earliest event inside window w
Earliest(w) ==
    LET times == {fromisoformat(Log[i].timestamp) : i \in Inside(w)}
    IN  CHOOSE t \in times : \A other \in times : t <= other

\* C10: time_until_reset has an entry for a window exactly when the events
\* inside it are at or above its limit, and the entry is
\* max(0, earliest + window length - now).
C10_ResetEntries ==
    (last.op = "reset" /\ ~last.raised) =>
        \A k \in 1..3 :
            LET w == Windows[k]
                entry == last.result[w]
            IN  /\ entry.present <=> Cardinality(Inside(w)) >= limits[w]
                /\ entry.present =>
                      entry.seconds = Max(0, Earliest(w) + WindowLength[w] - now)

C10_Witness ==
    /\ last.op = "reset" /\ ~last.raised
    /\ last.result.day.present /\ last.result.day.seconds > 0
    /\ ~last.result.hour.present
    /\ ~last.result.minute.present

\* what time_until_reset() of the instance "cli" reports for window w now
ResetReport(w) == ResetEntry(usage["cli"], now, w)

\* the events of the "cli" log inside window w, by position
InWindow(w) ==
    {i \in 1..Len(usage["cli"].requests) :
        Age(usage["cli"].requests[i]) < WindowLength[w]}

\* the instant the oldest event inside window w ages out
AgesOut(w) ==
    LET times == {fromisoformat(usage["cli"].requests[i].timestamp) :
                    i \in InWindow(w)}
    IN  (CHOOSE t \in times : \A other \in times : t <= other)
            + WindowLength[w]

\* time passes over an unchanged log of parsable events
Elapses ==
    /\ now' > now
    /\ usage' = usage
    /\ ~Raises(usage["cli"])

\* C11 as stated: for a window at its limit with no new event recorded, the
\* value time_until_reset() reports strictly decreases as time elapses and
\* is 0 at the instant the oldest event of the window ages out.
C11_ResetReachesZero ==
    [][Elapses =>
         \A k \in 1..3 :
            LET w == Windows[k]
                before == ResetReport(w)
                after == ResetEntry(usage["cli"], now', w)
            IN  before.present =>
                  /\ now' < AgesOut(w) =>
                        (after.present /\ after.seconds < before.seconds)
                  /\ now' = AgesOut(w) =>
                        (after.present /\ after.seconds = 0)]_vars

\* C11 amended: the reported value is the time left until the oldest event
\* of the window ages out; it goes down by the time elapsed and stays above
\* 0 while that event is inside the window.  At the instant the event ages
\* out it no longer counts: a window that held exactly its limit has no
\* entry any more, and 0 is never reported.
C11_ResetCountsDown ==
    [][Elapses =>
         \A k \in 1..3 :
            LET w == Windows[k]
                before == ResetReport(w)
                after == ResetEntry(usage["cli"], now', w)
            IN  before.present =>
                  /\ before.seconds = AgesOut(w) - now
                  /\ now' < AgesOut(w) =>
                        /\ after.present
                        /\ after.seconds = before.seconds - (now' - now)
                        /\ after.seconds > 0
                  /\ (/\ now' >= AgesOut(w)
                      /\ Cardinality(InWindow(w)) = limits[w]) =>
                        ~after.present
                  /\ after.present => after.seconds > 0]_vars

\* a report made one second before the oldest event of a full hour window
\* ages out, after the clock has advanced
C11_Witness ==
    /\ last.op = "reset" /\ ~last.raised
    /\ ticks > 0
    /\ last.result.hour.present
    /\ last.result.hour.seconds = 1
    /\ last.result.hour = ResetReport("hour")

\* the call has returned from the streaming function after an Exception
\* was raised inside it (Popen failed, record_request failed)
StreamingRaised ==
    /\ run.pc = "returned"
    /\ run.mode = "streaming"
    /\ run.stream_exc # "none"

\* C12: a streaming-mode call in which streaming raised an error has gone
\* on to the print-mode path and returns what that path returns.
C12_StreamingFallsBack ==
    StreamingRaised => (run.path = "print" /\ run.result.kind # "stream_error")

\* the executable was not found when the call tried to start it
ToolMissing == run.pc = "returned" /\ run.proc = "missing"

\* C13: in print, interactive and streaming mode, a call that finds no
\* executable returns the tool-not-found text.
C13_ToolNotFoundText == ToolMissing => run.result.kind = "not_found"

TimedOut ==
    /\ run.pc = "returned"
    /\ run.mode = "print"
    /\ run.exc = "TimeoutExpired"

Flags(result) == {result.remedies[i].flag : i \in 1..Len(result.remedies)}

\* C14: a print-mode call whose subprocess outlived the timeout returns the
\* timeout text: it states the timeout that ran out and proposes a larger
\* timeout, streaming mode and interactive mode.
C14_TimeoutDiagnostic ==
    TimedOut =>
        /\ run.result.kind = "timeout"
        /\ run.result.seconds = run.timeout
        /\ {"--timeout", "--stream", "--interactive"} \subseteq Flags(run.result)
        /\ \A i \in 1..Len(run.result.remedies) :
              run.result.remedies[i].flag = "--timeout"
                  => run.result.remedies[i].value > run.timeout

C14_Witness == TimedOut /\ run.timeout # timeout /\ run.calls = MaxCalls

\* a streaming-mode call that was interrupted has returned
Interrupted ==
    /\ run.pc = "returned"
    /\ run.mode = "streaming"
    /\ run.cancelled_at # "none"

\* C15: a streaming-mode call interrupted at any point returns the
\* cancelled text, raises nothing, and leaves no subprocess running: the
\* process has exited by itself, or after the request to terminate, or was
\* killed when the wait ran out.
C15_InterruptCancels ==
    Interrupted =>
        /\ run.result.kind = "cancelled"
        /\ run.proc \in {"exited", "terminated", "killed"}

\* how many times event e occurs in a log
Count(e, reqs) == Cardinality({i \in 1..Len(reqs) : reqs[i] = e})

Written == last.op = "record" /\ ~last.raised /\ last.save = "ok"

\* C16: a write replaces the whole file with the writer's own view: after
\* it the file holds of each event any instance has recorded exactly the
\* copies the writer's log holds, so an event of the other instance that the
\* writer never loaded is lost.
C16_WriteReplacesFile ==
    Written =>
        \A u \in Trackers : \A i \in 1..Len(recorded[u]) :
            Count(recorded[u][i], _load_usage(file).requests)
                = Count(recorded[u][i], Log)

\* a lost update: the file held an event the other instance recorded during
\* the behaviour, and after this write it holds it no more
C16_Witness ==
    /\ Written
    /\ \E u \in Trackers \ {last.tracker} : \E i \in 1..Len(recorded[u]) :
          /\ Parsable(recorded[u][i].timestamp)
          /\ fromisoformat(recorded[u][i].timestamp) >= Start
          /\ Count(recorded[u][i], _load_usage(last.fileBefore).requests) = 1
          /\ Count(recorded[u][i], _load_usage(file).requests) = 0

\* the names a prompt contains, in the order they occur in it
NamesIn(prompt) == SelectSeq(prompt, LAMBDA piece : piece \in Names)

Built == script.pc = "built"

\* C17: the prompt build_prompt returns contains the name of every entry
\* of service_collaboration_patterns, in the order of the spec; for a spec
\* without that key it raises nothing and the prompt lists no pattern.
C17_PromptListsNames ==
    Built =>
        /\ (/\ script.spec.key = "list"
            /\ \A i \in 1..Len(script.spec.value) :
                  script.spec.value[i].hasName) =>
              /\ script.result.raised = "none"
              /\ NamesIn(script.result.prompt)
                    = [i \in 1..Len(script.spec.value) |->
                         script.spec.value[i].name]
        /\ script.spec.key = "absent" =>
              /\ script.result.raised = "none"
              /\ script.result.prompt = <<PromptHead, PromptTail>>

C17_Witness ==
    /\ Built
    /\ script.spec.key = "list"
    /\ Len(script.spec.value) = MaxPatterns
    /\ script.spec.value[1].name = "Saga"
    /\ script.spec.value[2].name = "API Composition"
    /\ script.result.raised = "none"
    /\ Len(script.result.prompt) = 2 * MaxPatterns + 1

\* window w of the checked log is at or above its limit
AtLimit(w) == Younger(Log, WindowLength[w]) >= limits[w]

\* C18: check_rate_limit names the first window, in the order minute, hour,
\* day, that is at or above its limit, with the number of events inside
\* that window and its limit; 10 events in the last minute give "10/10
\* requests per minute" whatever the hour and day windows hold.
C18_FirstWindowNamed ==
    Checked =>
        \A k \in 1..3 :
            (AtLimit(Windows[k]) /\ \A j \in 1..(k - 1) : ~AtLimit(Windows[j]))
                => /\ ~last.result.allowed
                   /\ last.result.per = Windows[k]
                   /\ last.result.count = Younger(Log, WindowLength[Windows[k]])
                   /\ last.result.limit = limits[Windows[k]]

C18_Witness ==
    /\ Checked
    /\ AtLimit("minute") /\ AtLimit("hour") /\ AtLimit("day")
    /\ last.result.per = "minute"
    /\ last.result.count = 10 /\ last.result.limit = 10

\* the same for the hour window over the day window
C18_HourBeforeDay ==
    /\ Checked
    /\ ~AtLimit("minute") /\ AtLimit("hour") /\ AtLimit("day")
    /\ last.result.per = "hour"

Recorded == last.op = "record" /\ ~last.raised

\* C19: record_request leaves the log as it was with one event added at
\* the end, carrying the current time and the label of the call; when the
\* write succeeds the file reads back as exactly the in-memory log.
C19_RecordAppendsAndPersists ==
    Recorded =>
        /\ Len(Log) = Len(last.before.requests) + 1
        /\ SubSeq(Log, 1, Len(last.before.requests)) = last.before.requests
        /\ Log[Len(Log)].type = PatternAnalysis
        /\ Parsable(Log[Len(Log)].timestamp)
        /\ fromisoformat(Log[Len(Log)].timestamp) = now
        /\ last.save = "ok" => json_load(file) = usage[last.tracker]

\* a successful write over a file that held another log
C19_Witness ==
    /\ Recorded
    /\ last.save = "ok"
    /\ Len(last.before.requests) >= 2
    /\ Len(_load_usage(last.fileBefore).requests) > Len(Log)

IsPrefix(a, b) == Len(a) <= Len(b) /\ SubSeq(b, 1, Len(a)) = a

\* the strings the lines written to stream s so far are put on the queue
\* as, in the order the subprocess wrote them
Put(s) ==
    [i \in 1..Len(stream.wrote[s]) |-> Prefix[s] \o rstrip(stream.wrote[s][i])]

\* the lines of the subprocess among the collected ones
OfProcess(lines) == SelectSeq(lines, LAMBDA line : line # ReadFailure)

\* the lines of stream s on the display, in display order
Echoed(s) ==
    LET shown == SelectSeq(stream.echoed, LAMBDA entry : entry.of = s)
    IN  [i \in 1..Len(shown) |-> shown[i].text]

Queries == {"check", "stats", "reset"}

\* C27: a step of check_rate_limit, get_usage_stats or time_until_reset
\* leaves the storage file and the other instance alone; the first two
\* change the log of their instance only by dropping the events aged 24
\* hours or more, the third, and any of them that raises, not at all.
C27_QueriesOnlyPrune ==
    [][last'.op \in Queries =>
         LET t == last'.tracker
         IN  /\ file' = file
             /\ \A u \in Trackers \ {t} : usage'[u] = usage[u]
             /\ (last'.op = "reset" \/ last'.raised) => usage'[t] = usage[t]
             /\ (last'.op # "reset" /\ ~last'.raised) =>
                   /\ usage'[t].shape = usage[t].shape
                   /\ usage'[t].requests
                         = SelectSeq(usage[t].requests,
                                     LAMBDA req : Age(req) < DAY)]_vars

\* a check has dropped an old event, kept a younger one, and the file
\* still holds both
C27_Witness ==
    /\ Checked
    /\ Len(Log) >= 1
    /\ Len(Log) < Len(recorded[last.tracker])
    /\ Len(_load_usage(file).requests) > Len(Log)
    /\ owner = "none"

(***************************************************************************)
(* The CLI's gate                                                          *)
(***************************************************************************)
\* the events of the storage file inside the trailing window w
Stored(w) == After(_load_usage(file).requests, now, WindowLength[w])

\* C24: with every request going through the CLI's gate and the invocations
\* running one at a time, the events recorded inside the trailing minute
\* never number more than 10, inside the trailing hour never more than 100,
\* inside the trailing day never more than 500, the 'all' command included.
C24_WindowsNeverExceeded ==
    ~Raises(_load_usage(file)) =>
        \A w \in DOMAIN limits : Len(Stored(w)) <= limits[w]

\* C25: under --dry-run an invocation runs the tool not once and records no
\* usage event, whatever the other flags and whichever the subcommand.
C25_DryRunInvokesNothing ==
    invocation.dry_run =>
        /\ invocation.invoked = 0
        /\ invocation.recorded = 0

\* C26: under --execute, when check_rate_limit denies, the subcommand ends
\* cancelled with the tool not run, nothing recorded and the storage file as
\* it was; and the tool is run only in an invocation whose check allowed.
C26_DeniedRunsNothing ==
    /\ invocation.gate = "denied" =>
          /\ invocation.execute
          /\ invocation.ended = "cancelled"
          /\ invocation.invoked = 0
          /\ invocation.recorded = 0
          /\ file = invocation.fileBefore
    /\ invocation.invoked > 0 =>
          /\ invocation.execute
          /\ invocation.gate = "allowed"

\* the second invocation is denied after the first one ran the tool
C26_Witness ==
    /\ invocation.gate = "denied"
    /\ invocation.ended = "cancelled"
    /\ invocation.invocations = 2
    /\ Len(recorded["detector"]) = requests_per_minute

\* an allowed invocation has run the tool and recorded
C26_WitnessAllowed ==
    /\ invocation.gate = "allowed"
    /\ invocation.invoked > 0
    /\ invocation.recorded > 0
    /\ invocation.ended = "finished"

(***************************************************************************)
(* The streaming run: what is returned, and when                           *)
(***************************************************************************)
\* the streaming call has returned for a subprocess that exited with code 0,
\* recorded, and with no read of stdout having failed
ReturnedOutput ==
    /\ stream.pc = "returned"
    /\ stream.returncode = "0"
    /\ stream.result.kind \in {"output", "no_output"}
    /\ \A i \in 1..Len(stream.lines.stdout) :
          stream.lines.stdout[i] # ReadFailure
    /\ \A i \in 1..Len(stream.queue.stdout) :
          stream.queue.stdout[i] # ReadFailure

C21_HeartbeatCadence ==
    beat.pc # "none" /\ beat.interval.completed =>
        IF beat.interval.silent <= VerboseBeats
        THEN beat.interval.printed = "still_processing"
        ELSE (beat.interval.printed # "none"
                 <=> beat.interval.silent % QuietPeriod = 0)

C28_ReturnsAfterExit ==
    (stream.process = "exited") ~> (stream.pc = "returned")

\* the call has returned with a reader thread still reading a line that the
\* subprocess left in the pipe
C28_Witness ==
    /\ stream.pc = "returned"
    /\ stream.process = "exited"
    /\ \E s \in Streams : stream.thread[s] = "reading" /\ stream.pipe[s] # <<>>

====
